---- MODULE Spec2Model ----
(***************************************************************************)
(* Model of docs/_static/notebooks/basic_opt.ipynb: minimising             *)
(*   f(x) = (x[0]-5)^2 + x[1]^2 + (x[2]-1)^2                               *)
(* with torch.optim.SGD driven by a torchbearer Trial.                     *)
(*                                                                         *)
(* The parameter vector is a torch.tensor of Python floats, i.e. IEEE-754  *)
(* binary32.  A binary32 value is held here as its signed ordinal: the     *)
(* sign times the bit pattern of its magnitude (biased exponent * 2^23 +   *)
(* fraction).  Ordinals order exactly as the values do, +0 and -0 are both *)
(* 0.  Every arithmetic operation rounds to nearest, ties to even, with    *)
(* gradual underflow.  Inputs are kept far from overflow, so infinities    *)
(* and NaN are not represented.                                            *)
(***************************************************************************)
EXTENDS Integers, Sequences, FiniteSets

\* ------------------------------------------------------------- binary32

\* Width of the stored fraction, and of the significand with its leading bit.
FracBits == 23
SigBits == 24
\* Exponent of the least significant bit of a subnormal: 2^-149.
MinExp == -149

Pow2Table ==
  << 1, 2, 4, 8, 16, 32, 64, 128, 256, 512, 1024, 2048, 4096, 8192, 16384,
     32768, 65536, 131072, 262144, 524288, 1048576, 2097152, 4194304,
     8388608, 16777216, 33554432, 67108864, 134217728, 268435456,
     536870912, 1073741824 >>

Pow2(k) == Pow2Table[k + 1]

Abs(i) == IF i < 0 THEN -i ELSE i

Max(i, j) == IF i >= j THEN i ELSE j

\* Number of bits of m, 0 < m < 2^30 (binary search).
BitLen(m) ==
  IF m < 32768
  THEN IF m < 128
       THEN IF m < 8
            THEN IF m < 2 THEN 1 ELSE IF m < 4 THEN 2 ELSE 3
            ELSE IF m < 32 THEN (IF m < 16 THEN 4 ELSE 5)
                 ELSE IF m < 64 THEN 6 ELSE 7
       ELSE IF m < 2048
            THEN IF m < 512 THEN (IF m < 256 THEN 8 ELSE 9)
                 ELSE IF m < 1024 THEN 10 ELSE 11
            ELSE IF m < 8192 THEN (IF m < 4096 THEN 12 ELSE 13)
                 ELSE IF m < 16384 THEN 14 ELSE 15
  ELSE IF m < 8388608
       THEN IF m < 524288
            THEN IF m < 131072 THEN (IF m < 65536 THEN 16 ELSE 17)
                 ELSE IF m < 262144 THEN 18 ELSE 19
            ELSE IF m < 2097152 THEN (IF m < 1048576 THEN 20 ELSE 21)
                 ELSE IF m < 4194304 THEN 22 ELSE 23
       ELSE IF m < 134217728
            THEN IF m < 33554432 THEN (IF m < 16777216 THEN 24 ELSE 25)
                 ELSE IF m < 67108864 THEN 26 ELSE 27
            ELSE IF m < 536870912 THEN (IF m < 268435456 THEN 28 ELSE 29)
                 ELSE 30

\* Sign, significand and exponent of the value with ordinal o:
\* value = Sgn * Sig * 2^Exp.
Sgn(o) == IF o < 0 THEN -1 ELSE 1

Sig(o) ==
  LET a == Abs(o)
  IN IF a < Pow2(FracBits) THEN a ELSE (a % Pow2(FracBits)) + Pow2(FracBits)

Exp(o) ==
  LET a == Abs(o)
  IN IF a < Pow2(FracBits) THEN MinExp ELSE (a \div Pow2(FracBits)) + MinExp - 1

\* The binary32 nearest to s * (m + r) * 2^e, ties to even, where 0 <= m < 2^30
\* is an integer and r is a fraction, 0 < r < 1 when sticky and 0 otherwise.
\* Callers keep m >= 2^25 whenever sticky, so the fraction is always below the
\* rounding position.
round32[s \in Int, m \in Int, e \in Int, sticky \in BOOLEAN] ==
  IF m = 0 THEN 0
  ELSE
    LET shift == Max(BitLen(m) - SigBits, MinExp - e)
    IN IF shift <= 0
       THEN s * ((e + shift - MinExp) * Pow2(FracBits) + m * Pow2(-shift))
       ELSE IF shift > 30 THEN 0
       ELSE
         LET q == m \div Pow2(shift)
             r == m % Pow2(shift)
             half == Pow2(shift - 1)
             up == IF r > half \/ (r = half /\ (sticky \/ q % 2 = 1))
                   THEN 1 ELSE 0
         IN s * ((e + shift - MinExp) * Pow2(FracBits) + q + up)

\* round32, add32 and mul32 are functions, applied to the values of their
\* arguments.
RoundPack(s, m, e, sticky) == round32[s, m, e, sticky]

\* Whether RoundPack(s, m, e, sticky) is s * (m + r) * 2^e itself.
IsExact(m, e, sticky) ==
  IF m = 0 THEN TRUE
  ELSE
    LET shift == Max(BitLen(m) - SigBits, MinExp - e)
    IN IF shift <= 0 THEN TRUE
       ELSE IF shift > 30 THEN FALSE
       ELSE ~sticky /\ m % Pow2(shift) = 0

\* The sum of nonzero a and b before FAdd rounds it, as the arguments of
\* RoundPack: the larger operand with three guard bits, the smaller aligned.
AddParts(a, b) ==
  LET big == IF Abs(a) >= Abs(b) THEN a ELSE b
      small == IF Abs(a) >= Abs(b) THEN b ELSE a
      d == Exp(big) - Exp(small)
      B == Sig(big) * 8
      t == Sig(small) * 8
      q == IF d > 27 THEN 0 ELSE t \div Pow2(d)
      sticky == IF d > 27 THEN TRUE ELSE t % Pow2(d) # 0
  IN [s |-> Sgn(big),
      m |-> IF Sgn(big) = Sgn(small) THEN B + q
            ELSE IF sticky THEN B - q - 1 ELSE B - q,
      e |-> Exp(big) - 3,
      sticky |-> sticky]

\* a + b in binary32 (torch's elementwise add on float32 tensors).
add32[a \in Int, b \in Int] ==
  IF a = 0 THEN b
  ELSE IF b = 0 THEN a
  ELSE
    LET big == IF Abs(a) >= Abs(b) THEN a ELSE b
        small == IF Abs(a) >= Abs(b) THEN b ELSE a
        d == Exp(big) - Exp(small)
        B == Sig(big) * 8
        t == Sig(small) * 8
        q == IF d > 27 THEN 0 ELSE t \div Pow2(d)
        sticky == IF d > 27 THEN TRUE ELSE t % Pow2(d) # 0
    IN IF Sgn(big) = Sgn(small)
       THEN RoundPack(Sgn(big), B + q, Exp(big) - 3, sticky)
       ELSE IF sticky
            THEN RoundPack(Sgn(big), B - q - 1, Exp(big) - 3, TRUE)
            ELSE RoundPack(Sgn(big), B - q, Exp(big) - 3, FALSE)

FAdd(a, b) == add32[a, b]

FNeg(a) == -a

\* a - b in binary32.
FSub(a, b) == FAdd(a, FNeg(b))

\* The product of nonzero a and b before FMul rounds it, as the arguments of
\* RoundPack.
MulParts(a, b) ==
  LET na == SigBits - BitLen(Sig(a))
      nb == SigBits - BitLen(Sig(b))
      ma == Sig(a) * Pow2(na)
      mb == Sig(b) * Pow2(nb)
      a1 == ma \div 4096
      a0 == ma % 4096
      b1 == mb \div 4096
      b0 == mb % 4096
      mid == a1 * b0 + a0 * b1
      losum == a0 * b0 + (mid % 4096) * 4096
      hi == a1 * b1 + (mid \div 4096) + (losum \div Pow2(SigBits))
      lo == losum % Pow2(SigBits)
  IN [s |-> Sgn(a) * Sgn(b),
      m |-> hi * 64 + (lo \div 262144),
      e |-> (Exp(a) - na) + (Exp(b) - nb) + 18,
      sticky |-> lo % 262144 # 0]

\* a * b in binary32.  The significands are normalised to 24 bits and the
\* 48-bit product is formed from 12-bit halves.
mul32[a \in Int, b \in Int] ==
  IF a = 0 \/ b = 0 THEN 0
  ELSE
    LET na == SigBits - BitLen(Sig(a))
        nb == SigBits - BitLen(Sig(b))
        ma == Sig(a) * Pow2(na)
        mb == Sig(b) * Pow2(nb)
        e == (Exp(a) - na) + (Exp(b) - nb)
        a1 == ma \div 4096
        a0 == ma % 4096
        b1 == mb \div 4096
        b0 == mb % 4096
        mid == a1 * b0 + a0 * b1
        losum == a0 * b0 + (mid % 4096) * 4096
        hi == a1 * b1 + (mid \div 4096) + (losum \div Pow2(SigBits))
        lo == losum % Pow2(SigBits)
    IN RoundPack(Sgn(a) * Sgn(b), hi * 64 + (lo \div 262144), e + 18,
                 lo % 262144 # 0)

FMul(a, b) == mul32[a, b]

\* Whether a + b, a - b and a * b are computed without rounding.
ExactAdd(a, b) ==
  a = 0 \/ b = 0 \/ LET q == AddParts(a, b) IN IsExact(q.m, q.e, q.sticky)

ExactSub(a, b) == ExactAdd(a, FNeg(b))

ExactMul(a, b) ==
  a = 0 \/ b = 0 \/ LET q == MulParts(a, b) IN IsExact(q.m, q.e, q.sticky)

\* The binary32 holding m * 2^e exactly (m an integer of at most 24 bits).
Dyadic(m, e) == RoundPack(Sgn(m), Abs(m), e, FALSE)

\* The binary32 literals of the notebook.
Zero == Dyadic(0, 0)
One == Dyadic(1, 0)
Two == Dyadic(1, 1)
Five == Dyadic(5, 0)
Ten == Dyadic(5, 1)

\* ------------------------------------------------------------- notebook

\* p = torch.tensor([2.0, 1.0, 10.0])
p_notebook == << Two, One, Ten >>

\* An epoch a tenth as long.
training_steps_short == 50000 \div 10

\* training_steps = 50000
training_steps_notebook == 50000

\* lr=0.0001, cast to the binary32 of the parameter tensor: 13743895 * 2^-37.
lr_notebook == Dyadic(13743895, -37)

\* out = self.pars: the assignments of Net.f write into the parameters.
OutTensorAliased == "pars"

\* The tensor the assignments of Net.f write to: torch.zeros_like returns a
\* fresh tensor, named "out" here, that shares nothing with "pars".
OutTensor == "out"

zeros_like(v) == [i \in DOMAIN v |-> Zero]

\* out, not squared.
pow2_dropped(v) == v

\* out**2, elementwise.
pow2(v) == [i \in DOMAIN v |-> FMul(v[i], v[i])]

\* torch.sum of a 3-element float32 tensor, accumulated in index order.
torch_sum(v) == FAdd(FAdd(v[1], v[2]), v[3])

\* The tensors "pars" and "out" when Net.f reaches its return statement: the
\* three indexed assignments are writes through OutTensor, their right-hand
\* sides read "pars".
f_tensors(self_pars) ==
  LET h0 == [pars |-> self_pars, out |-> zeros_like(self_pars)]
      h1 == [h0 EXCEPT ![OutTensor][1] = FSub(h0.pars[1], Five)]
      h2 == [h1 EXCEPT ![OutTensor][2] = h1.pars[2]]
  IN [h2 EXCEPT ![OutTensor][3] = FSub(h2.pars[3], One)]

\* Net.f: return torch.sum(out**2)
f(self_pars) == torch_sum(pow2(f_tensors(self_pars)[OutTensor]))

\* Net.forward: state[ESTIMATE] = self.pars.detach().unsqueeze(1), then
\* return self.f().  The result holds the returned value, the new
\* state[ESTIMATE] and the contents of self.pars on return.
forward(self_pars) ==
  [ret |-> f(self_pars),
   est |-> self_pars,
   pars |-> f_tensors(self_pars).pars]

\* A loss that takes the label into account when there is one.
loss_uses_label(y_pred_, y_true) ==
  IF y_true = << >> THEN y_pred_ ELSE FSub(y_pred_, y_true[1])

\* def loss(y_pred, y_true): return y_pred
loss(y_pred_, y_true) == y_pred_

\* A backward pass that loses the factor 2 of the square.
backward_unscaled(self_pars) ==
  LET out == f_tensors(self_pars)["out"]
  IN [i \in DOMAIN self_pars |-> FMul(One, out[i])]

\* loss.backward() through sum, pow and the indexed copies of a subtraction:
\* d loss / d pars[i] = 1 * (2 * out[i]).
backward(self_pars) ==
  LET out == f_tensors(self_pars)[OutTensor]
  IN [i \in DOMAIN self_pars |-> FMul(One, FMul(Two, out[i]))]

\* SGD with weight_decay=1: the parameter is added to its gradient.
sgd_step_decay(param, g, rate) ==
  [i \in DOMAIN param |->
     FAdd(param[i], FMul(FNeg(rate), FAdd(g[i], param[i])))]

\* An optimiser that steps up the gradient.
sgd_step_ascent(param, g, rate) ==
  [i \in DOMAIN param |-> FAdd(param[i], FMul(rate, g[i]))]

\* An optimiser whose step leaves the parameters alone.
sgd_step_frozen(param, g, rate) == param

\* torch.optim.SGD.step with momentum 0: param.add_(grad, alpha=-lr).
sgd_step(param, g, rate) ==
  [i \in DOMAIN param |-> FAdd(param[i], FMul(FNeg(rate), g[i]))]

\* A loop test that lets one more step through.
epoch_done_late(steps_run, n) == steps_run > n

\* The trial's loop test after t+1 steps of an epoch of n.
epoch_done(steps_run, n) == steps_run >= n

\* A fallback that installs again when the import after the install fails.
after_failed_reimport_retry == "install"

\* Where the import cell goes when the import after the install fails: the
\* ImportError leaves the except clause and ends the cell.
after_failed_reimport == "ImportError"

\* One whole training step on a parameter vector.
TrainStep(x, rate) ==
  LET after == forward(x).pars
  IN sgd_step(after, backward(after), rate)

\* ----------------------------------------------------------------- bounds

\* Largest number of steps per epoch tried in Spec.
MaxSteps == 3

\* Inputs: initial guesses and learning rates.  NearVec is the notebook's
\* guess after 21 steps at learning rate 1/4: (5 - 3*2^-21, 2^-21, 1 + 9*2^-21).
NearVec == << Dyadic(10485757, -21), Dyadic(1, -21), Dyadic(2097161, -21) >>

Solution == << Five, Zero, One >>

StartSet ==
  { p_notebook, Solution, NearVec,
    << Zero, Zero, Zero >>,
    << Dyadic(13, -1), Dyadic(-3, -2), Dyadic(-1, 1) >> }

Quarter == Dyadic(1, -2)
Half == Dyadic(1, -1)
ThreeQuarters == Dyadic(3, -2)
Tenth == Dyadic(13421773, -27)
Hundredth == Dyadic(5368709, -29)
NineTenths == Dyadic(7549747, -23)
TinyLr == Dyadic(1, -30)

LrSet == { lr_notebook, TinyLr, Tenth, Quarter, Half, ThreeQuarters }

\* ------------------------------------------------------------------ state

VARIABLES
  pc,              \* the cell or the part of a training step that runs next
  importable,      \* environment: "import torchbearer" succeeds
  pipOk,           \* environment: "pip install torchbearer" installs it
  cuda,            \* environment: a CUDA device is present
  imports,         \* import statements executed
  installs,        \* pip installs executed
  p,               \* the initial guess tensor
  lr,              \* the optimiser's learning rate
  training_steps,  \* steps per epoch
  label,           \* y_true handed to loss (<<>> is None)
  other,           \* a second vector (objective specifications only)
  pars,            \* model.pars (<<>> before the model exists)
  est,             \* state[ESTIMATE]
  y_pred,          \* <<value>> returned by forward
  lossv,           \* <<value>> returned by loss
  grad,            \* pars.grad
  t,               \* optimiser steps taken
  printed          \* the printed tensor

vars ==
  << pc, importable, pipOk, cuda, imports, installs, p, lr, training_steps,
     label, other, pars, est, y_pred, lossv, grad, t, printed >>

env == << importable, pipOk, cuda >>
config == << p, lr, training_steps, label, other >>
train == << pars, est, y_pred, lossv, grad, t, printed >>

Fresh ==
  /\ imports = 0 /\ installs = 0
  /\ label = << >> /\ other = << >>
  /\ pars = << >> /\ est = << >> /\ y_pred = << >> /\ lossv = << >>
  /\ grad = << >> /\ t = 0 /\ printed = << >>

Init ==
  /\ pc = "import"
  /\ importable \in BOOLEAN /\ pipOk \in BOOLEAN /\ cuda \in BOOLEAN
  /\ p \in StartSet /\ lr \in LrSet /\ training_steps \in 1..MaxSteps
  /\ Fresh

\* try: import torchbearer
Import ==
  /\ pc = "import"
  /\ imports' = imports + 1
  /\ pc' = IF importable THEN "model" ELSE "install"
  /\ UNCHANGED << env, installs, config, train >>

\* except: !pip install torchbearer
Install ==
  /\ pc = "install"
  /\ installs' = installs + 1
  /\ importable' = pipOk
  /\ pc' = "reimport"
  /\ UNCHANGED << pipOk, cuda, imports, config, train >>

\* import torchbearer, inside the except clause
ReImport ==
  /\ pc = "reimport"
  /\ imports' = imports + 1
  /\ pc' = IF importable THEN "model" ELSE after_failed_reimport
  /\ UNCHANGED << env, installs, config, train >>

\* model = Net(p); optim = torch.optim.SGD(model.parameters(), lr=...)
Model ==
  /\ pc = "model"
  /\ pars' = p
  /\ pc' = "trial"
  /\ UNCHANGED << env, imports, installs, config, est, y_pred, lossv, grad, t,
                  printed >>

\* tbtrial = Trial(...); tbtrial.for_train_steps(training_steps).to('cuda')
Trial ==
  /\ pc = "trial"
  /\ pc' = IF cuda THEN "forward" ELSE "CudaError"
  /\ UNCHANGED << env, imports, installs, config, train >>

\* tbtrial.run(), one step: y_pred = model(x, state)
Forward ==
  /\ pc = "forward"
  /\ LET r == forward(pars)
     IN /\ y_pred' = << r.ret >>
        /\ est' = r.est
        /\ pars' = r.pars
  /\ pc' = "loss"
  /\ UNCHANGED << env, imports, installs, config, lossv, grad, t, printed >>

\* loss = criterion(y_pred, y_true)
Loss ==
  /\ pc = "loss"
  /\ lossv' = << loss(y_pred[1], label) >>
  /\ pc' = "backward"
  /\ UNCHANGED << env, imports, installs, config, pars, est, y_pred, grad, t,
                  printed >>

\* optimizer.zero_grad(); loss.backward()
Backward ==
  /\ pc = "backward"
  /\ grad' = backward(pars)
  /\ pc' = "step"
  /\ UNCHANGED << env, imports, installs, config, pars, est, y_pred, lossv, t,
                  printed >>

\* optimizer.step(): the update is in place, so the detached view under
\* state[ESTIMATE] shows it too.
OptStep ==
  /\ pc = "step"
  /\ pars' = sgd_step(pars, grad, lr)
  /\ est' = pars'
  /\ t' = t + 1
  /\ pc' = IF epoch_done(t + 1, training_steps) THEN "print" ELSE "forward"
  /\ UNCHANGED << env, imports, installs, config, y_pred, lossv, grad,
                  printed >>

\* print(list(model.parameters())[0].data)
PrintPars ==
  /\ pc = "print"
  /\ printed' = pars
  /\ pc' = "done"
  /\ UNCHANGED << env, imports, installs, config, pars, est, y_pred, lossv,
                  grad, t >>

Next ==
  \/ Import \/ Install \/ ReImport \/ Model \/ Trial
  \/ Forward \/ Loss \/ Backward \/ OptStep \/ PrintPars

Spec == Init /\ [][Next]_vars

\* The notebook as recorded: a Colab GPU runtime without torchbearer.
InitNotebook ==
  /\ pc = "import"
  /\ importable = FALSE /\ pipOk = TRUE /\ cuda = TRUE
  /\ p = p_notebook /\ lr = lr_notebook
  /\ training_steps = training_steps_notebook
  /\ Fresh

SpecNotebook == InitNotebook /\ [][Next]_vars

\* ------------------------------------------------- runs of many steps

\* Steps per epoch of the runs at other learning rates: enough for each of
\* them to reach its final fixed point or cycle.
LongRun == 600

MiscVec == << Dyadic(13, -1), Dyadic(-3, -2), Dyadic(-1, 1) >>

RunLrs == { TinyLr, Tenth, Quarter, Half, ThreeQuarters, NineTenths }

RunConfigs ==
  { << p_notebook, lr_notebook, training_steps_notebook >> }
    \cup { << s, l, LongRun >> : s \in StartSet, l \in RunLrs }

InitRuns ==
  /\ pc = "import"
  /\ importable = FALSE /\ pipOk = TRUE /\ cuda = TRUE
  /\ \E c \in RunConfigs : p = c[1] /\ lr = c[2] /\ training_steps = c[3]
  /\ Fresh

SpecRuns == InitRuns /\ [][Next]_vars

\* --------------------------------------------- the update, repeated

\* The update x <- x - lr * grad f(x) repeated without end on the parameter
\* tensor: the training step of the trial, with no epoch length.
IterLrs == { TinyLr, Hundredth, Tenth, Quarter, Half, ThreeQuarters, NineTenths }

IterStarts == { p_notebook, NearVec, MiscVec, Solution }

\* The loop is cut after backward: the state holds the parameters and the
\* gradient that backward has left for the optimiser.
InitIterate ==
  /\ pc = "repeat"
  /\ importable = TRUE /\ pipOk = TRUE /\ cuda = TRUE
  /\ p \in IterStarts /\ lr \in IterLrs /\ training_steps = 0
  /\ imports = 1 /\ installs = 0
  /\ label = << >> /\ other = << >>
  /\ pars = p /\ est = << >> /\ y_pred = << >> /\ lossv = << >>
  /\ grad = backward(forward(p).pars) /\ t = 0 /\ printed = << >>

\* The optimiser's step on the parameters.
Update == pc = "repeat" /\ pars' = sgd_step(pars, grad, lr)

\* The optimiser's step, then forward and backward of the next iteration.
Repeat ==
  /\ Update
  /\ grad' = backward(forward(pars').pars)
  /\ UNCHANGED << pc, env, imports, installs, config, est, y_pred, lossv,
                  t, printed >>

\* The loop never pauses: a step that would change the parameters is taken.
SpecIterate == InitIterate /\ [][Repeat]_vars /\ WF_pars(Update)

\* ------------------------------------- one step from a chosen vector

\* Vectors on which every operation of f, of its gradient and of a midpoint
\* is exact: coordinates are small multiples of 1/4.
ExactVecs ==
  { p_notebook, Solution, MiscVec,
    << Zero, Zero, Zero >>,
    << Dyadic(4, 0), Dyadic(1, -1), Dyadic(3, -1) >>,
    << Dyadic(7, 0), Dyadic(-1, 0), Zero >> }

\* The parameters the recorded run prints: (4.998808, 4.5354e-05, 1.000416).
RecordedVec ==
  << Dyadic(2620815, -19), Dyadic(3116741, -36), Dyadic(2098025, -21) >>

\* Vectors at the solution but for a tiny second coordinate: 2^-149 (where
\* the runs at learning rate 1/4 end), 2^-75 and 1.5 * 2^-75.
TinyVecs ==
  { << Five, Dyadic(1, -149), One >>,
    << Five, Dyadic(1, -75), One >>,
    << Five, Dyadic(3, -76), One >> }

\* Where the update at the notebook's learning rate stops moving, a little
\* further on: (4.998808, 3.5e-42, 1.000298).
StalledVec ==
  << Dyadic(2620815, -19), Dyadic(625, -147), Dyadic(2097777, -21) >>

VecSet == ExactVecs \cup { NearVec, RecordedVec, StalledVec } \cup TinyVecs

LabelSet == { << >>, << Zero >>, << One >> }

ObjLrs == { lr_notebook, TinyLr, Quarter }

InitObjective ==
  /\ pc = "forward"
  /\ importable = TRUE /\ pipOk = TRUE /\ cuda = TRUE
  /\ imports = 1 /\ installs = 0
  /\ p \in VecSet /\ other \in VecSet /\ lr \in ObjLrs /\ label \in LabelSet
  /\ training_steps = 1
  /\ pars = p /\ est = << >> /\ y_pred = << >> /\ lossv = << >>
  /\ grad = << >> /\ t = 0 /\ printed = << >>

NextStep == Forward \/ Loss \/ Backward \/ OptStep \/ PrintPars

SpecObjective == InitObjective /\ [][NextStep]_vars

\* ------------------------------------------------------------ objective

ZeroVec == << Zero, Zero, Zero >>

\* f(x) = (x[0]-5)^2 + x[1]^2 + (x[2]-1)^2, the docstring's formula, evaluated
\* in binary32 as written.
RefF(x) ==
  FAdd(FAdd(FMul(FSub(x[1], Five), FSub(x[1], Five)), FMul(x[2], x[2])),
       FMul(FSub(x[3], One), FSub(x[3], One)))

\* C3: the value forward returns for the vector p is the reference f(p), and
\* so is the loss, the value that is minimised, whatever the label.
C3_ObjectiveIsReference ==
  /\ y_pred # << >> => y_pred[1] = RefF(p)
  /\ lossv # << >> => lossv[1] = RefF(p)

C3_Witness ==
  /\ lossv # << >> /\ label = << One >> /\ p = NearVec /\ lossv[1] > 0

\* C4 as claimed: f(x) >= 0, and f(x) = 0 exactly when x = (5, 0, 1).
C4_UniqueMinimum ==
  y_pred # << >> => /\ y_pred[1] >= 0
                    /\ y_pred[1] = 0 <=> p = Solution

\* C4, amended: f(x) >= 0, f(5, 0, 1) = 0, and f(x) = 0 exactly when x[0] = 5,
\* x[2] = 1 and |x[1]| <= 2^-75 (the square of such an x[1] underflows to 0).
C4_MinimumUpToUnderflow ==
  y_pred # << >> =>
    /\ y_pred[1] >= 0
    /\ y_pred[1] = 0 <=>
         (p[1] = Five /\ p[3] = One /\ Abs(p[2]) <= Dyadic(1, -75))

C4_Witness ==
  /\ y_pred # << >> /\ y_pred[1] = 0 /\ p = << Five, Dyadic(1, -75), One >>

\* The midpoint of a and b.
Mid(a, b) == [i \in DOMAIN a |-> FMul(Half, FAdd(a[i], b[i]))]

\* f(midpoint) <= (f(a) + f(b)) / 2, as 2 f(midpoint) <= f(a) + f(b).
Convex(a, b) == FMul(Two, f(Mid(a, b))) <= FAdd(f(a), f(b))

\* C8 as claimed: f is convex, its gradient is zero only at (5, 0, 1), and a
\* step (the learning rates are all nonzero) leaves the vector unchanged
\* exactly when it is (5, 0, 1).
C8_StationaryOnlyAtSolution ==
  pc = "done" =>
    /\ Convex(p, other)
    /\ grad = ZeroVec <=> p = Solution
    /\ pars = p <=> p = Solution

\* C8, amended: f is convex on the vectors it is computed exactly for, its
\* gradient is zero only at (5, 0, 1), and a step leaves (5, 0, 1) unchanged;
\* the converse is dropped, a step also leaves unchanged every vector whose
\* lr * grad is below half a unit in the last place of each coordinate.
C8_ConvexAndSolutionFixed ==
  pc = "done" =>
    /\ (p \in ExactVecs /\ other \in ExactVecs) => Convex(p, other)
    /\ grad = ZeroVec <=> p = Solution
    /\ p = Solution => pars = p

C8_Witness ==
  /\ pc = "done" /\ p = StalledVec /\ lr = lr_notebook
  /\ pars = p /\ grad # ZeroVec

\* ------------------------------------------------------------- the cells

\* The vector after n whole training steps from x.
RECURSIVE Iterate(_, _, _)
Iterate(x, rate, n) ==
  IF n = 0 THEN x ELSE Iterate(TrainStep(x, rate), rate, n - 1)

\* C5: the run takes exactly training_steps optimiser steps, one after the
\* other, then prints and ends; what it prints is the parameter vector after
\* exactly that many updates of the initial guess.
C5_ExactlyConfiguredSteps ==
  /\ t <= training_steps
  /\ pc \in { "print", "done" } => t = training_steps
  /\ pc \in { "forward", "loss", "backward", "step" } => t < training_steps
  /\ pc # "done" => printed = << >>
  /\ pc = "done" => /\ printed = pars
                    /\ printed = Iterate(p, lr, training_steps)

C5_Witness ==
  /\ pc = "done" /\ t = MaxSteps /\ p = p_notebook /\ lr = Quarter
  /\ printed # p

\* C6: the import is attempted first; the install runs only after the first
\* import has failed, at most once, and is followed by exactly one more
\* import; after a first import that succeeds nothing is installed; when the
\* second import fails the ImportError ends the cell, nothing is retried.
C6_InstallFallback ==
  /\ installs <= 1 /\ imports <= 2
  /\ imports = 0 <=> pc = "import"
  /\ pc = "import" => installs = 0
  /\ pc = "install" => imports = 1 /\ installs = 0 /\ ~importable
  /\ pc = "reimport" => imports = 1 /\ installs = 1
  /\ (installs = 1 /\ pc # "reimport") => imports = 2
  /\ (imports = 1 /\ pc \notin { "install", "reimport" }) =>
       installs = 0 /\ importable
  /\ pc = "ImportError" => imports = 2 /\ installs = 1 /\ ~importable
  /\ pc \notin { "import", "install", "reimport", "ImportError" } => importable

C6_Witness == pc = "ImportError" /\ installs = 1 /\ imports = 2

\* grad f(x) = (2(x0-5), 2 x1, 2(x2-1)), in binary32.
GradFormula(x) ==
  << FMul(Two, FSub(x[1], Five)), FMul(Two, x[2]),
     FMul(Two, FSub(x[3], One)) >>

\* x - lr * grad f(x), every coordinate from the same vector x, in binary32.
StepFormula(x, rate) ==
  [i \in DOMAIN x |-> FSub(x[i], FMul(rate, GradFormula(x)[i]))]

\* C7, first part: when the optimiser steps, pars.grad is the gradient at the
\* current vector, and the step replaces the vector by x - lr * grad.
GradientStep ==
  /\ pc' = "step" => grad' = GradFormula(pars')
  /\ pc = "step" => pars' = StepFormula(pars, lr)

\* C7, second part: the step maps the deviation d = x[i] - target[i] of each
\* coordinate to (1 - 2 lr) d, that is d - d' = 2 lr d.  Stated where d, d' and
\* 2 lr d are binary32 values: there the equation holds of the real numbers
\* exactly when d - d' is computed without rounding and equals 2 lr d.
DeviationScaled ==
  pc = "step" =>
    \A i \in DOMAIN pars :
      LET d == FSub(pars[i], Solution[i])
          dd == FSub(pars'[i], Solution[i])
          twoLr == FMul(Two, lr)
      IN (/\ ExactSub(pars[i], Solution[i])
          /\ ExactSub(pars'[i], Solution[i])
          /\ ExactMul(twoLr, d))
           => ExactSub(d, dd) /\ FSub(d, dd) = FMul(twoLr, d)

\* C7 as claimed: both parts.
C7_StepScalesDeviation == [][GradientStep /\ DeviationScaled]_vars

\* C7, amended: the first part only; the binary32 step x - lr * grad need not
\* scale the deviation by 1 - 2 lr, it may even leave it unchanged.
C7_GradientStep == [][GradientStep]_vars

C7_Witness ==
  /\ pc = "forward" /\ t = 1 /\ p = p_notebook /\ lr = lr_notebook
  /\ pars # p /\ pars = StepFormula(p, lr)

\* C9 as claimed: forward changes nothing, neither the parameter vector nor
\* any other state; the only change in a training step is the optimiser's.
C9_ForwardChangesNothing ==
  [][/\ pc = "forward" => UNCHANGED << pars, est, grad, t, printed >>
     /\ pc \in { "forward", "loss", "backward" } => UNCHANGED << pars, est, grad >>
    ]_vars

\* C9, amended: forward leaves the parameter vector unchanged, its one side
\* effect is to store the parameters under state[ESTIMATE]; the loss changes
\* no state, backward only fills pars.grad, and once the model is built the
\* parameter vector changes in the optimiser's step alone.
C9_OnlyOptimiserChangesPars ==
  [][/\ pc = "forward" =>
          /\ UNCHANGED << pars, grad, t, printed >>
          /\ est' = pars
     /\ pc = "loss" => UNCHANGED << pars, est, grad, t, printed >>
     /\ pc = "backward" => UNCHANGED << pars, est, t, printed >>
     /\ pars' # pars => pc \in { "model", "step" }
    ]_vars

C9_Witness == pc = "loss" /\ est = pars /\ pars = p /\ p = p_notebook /\ t = 0

\* ------------------------------------------------------------- the runs

\* Every coordinate of x is within eps of (5, 0, 1) and f(x) is below eps.
Within(x, eps) ==
  /\ \A i \in DOMAIN x : Abs(FSub(x[i], Solution[i])) < eps
  /\ f(x) < eps

\* C2: the notebook's run ends after 50,000 steps with every coordinate within
\* 0.01 of (5, 0, 1) and the objective below 0.001 (the thresholds are the
\* binary32 values next below 0.01 and 0.001), and what it prints rounds to
\* the recorded estimate 4.9988, 0.0, 1.0004.
C2_ConfiguredRun ==
  pc = "done" =>
    /\ t = 50000
    /\ \A i \in DOMAIN printed :
         Abs(FSub(printed[i], Solution[i])) < Dyadic(5368709, -29)
    /\ f(printed) < Dyadic(4294967, -32)
    /\ Dyadic(10483139, -21) <= printed[1] /\ printed[1] <= Dyadic(2620837, -19)
    /\ Abs(printed[2]) <= Dyadic(13743895, -38)
    /\ Dyadic(8391545, -23) <= printed[3] /\ printed[3] <= Dyadic(4196191, -22)

C2_Witness == pc = "done" /\ printed = RecordedVec /\ t = 50000

\* The objective does not increase over the step.
NeverIncreases == pc = "step" => f(pars') <= f(pars)

\* From (2, 1, 10) at a learning rate of at most 1/2 no coordinate passes its
\* target.
NeverCrosses ==
  (pc = "step" /\ p = p_notebook /\ lr <= Half) =>
    pars'[1] <= Five /\ pars'[2] >= Zero /\ pars'[3] >= One

\* C10 as claimed: at every step the objective does not increase, it strictly
\* decreases unless the vector is (5, 0, 1), and no coordinate passes its
\* target.
C10_StrictDescent ==
  [][/\ NeverIncreases
     /\ (pc = "step" /\ pars # Solution) => f(pars') < f(pars)
     /\ NeverCrosses]_vars

\* C10, amended: the objective never increases and no coordinate passes its
\* target; at a learning rate of 0.0001 or more it strictly decreases while it
\* is at least 2^-19.  Below that, and at much smaller learning rates
\* anywhere, a step may leave it as it is.
C10_Descent ==
  [][/\ NeverIncreases
     /\ (pc = "step" /\ lr >= lr_notebook /\ f(pars) >= Dyadic(1, -19))
          => f(pars') < f(pars)
     /\ NeverCrosses]_vars

C10_Witness ==
  /\ pc = "step" /\ p = p_notebook /\ lr = Tenth /\ pars # Solution
  /\ f(TrainStep(pars, lr)) = f(pars)

\* C1 as claimed: from (2, 1, 10) the repeated update ends up, for good, within
\* every eps of (5, 0, 1); eps is 2^-4, 2^-10, 2^-16 and 2^-22.
C1_ConvergesForEveryEps ==
  p = p_notebook =>
    /\ <>[]Within(pars, Dyadic(1, -4))
    /\ <>[]Within(pars, Dyadic(1, -10))
    /\ <>[]Within(pars, Dyadic(1, -16))
    /\ <>[]Within(pars, Dyadic(1, -22))

\* C1, amended: at the learning rates 0.01, 0.1, 1/4, 1/2, 3/4 and 0.9 the
\* repeated update from (2, 1, 10) ends up, for good, within eps of (5, 0, 1)
\* for eps down to 2^-16, not for every eps; at a learning rate as small as
\* 2^-30 it never leaves (2, 1, 10).
C1_ConvergesToTolerance ==
  (p = p_notebook /\ lr # TinyLr) =>
    /\ <>[]Within(pars, Dyadic(1, -4))
    /\ <>[]Within(pars, Dyadic(1, -10))
    /\ <>[]Within(pars, Dyadic(1, -16))

C1_Witness ==
  /\ p = p_notebook /\ lr = Hundredth
  /\ pars = TrainStep(pars, lr) /\ pars # Solution
  /\ Within(pars, Dyadic(1, -16))
====
